---- MODULE Spec2Model ----
(***************************************************************************)
(* The numeric pipeline of less_slow.py (region "Pipelines and             *)
(* Abstractions"): range -> two filters -> prime factors -> (sum, count),  *)
(* realised by callbacks, generators, an iterator class, polymorphic       *)
(* stages and async generators.                                            *)
(***************************************************************************)
EXTENDS Integers, Sequences, FiniteSets, TLC

(***************************************************************************)
(* Bounds of the model.                                                    *)
(***************************************************************************)
\* ranges [a, b] with 1 <= a <= b <= MaxEnd are run besides the canonical one
MaxEnd == 18
\* the factorizers are called directly on every number in MinNumber..MaxNumber
MaxNumber == 40
\* advances of a PrimeFactors cursor that are tried after it is exhausted
MaxStops == 2
\* the predicates are called on every integer in -MaxArg..MaxArg
MaxArg == 1100
\* integers a buffer may hold before ForRangeStage.process is called on it
MaxPrior == 2

MinNumber == 0 - 2

(***************************************************************************)
(* Program constants.                                                      *)
(***************************************************************************)
PIPE_START == 3
PIPE_END == 49
PIPE_EXPECTED_SUM == 645
PIPE_EXPECTED_COUNT == 84
\* the decimal digits of the literal 12157665459056928801
MAX_POWER_OF_THREE == <<1, 2, 1, 5, 7, 6, 6, 5, 4, 5, 9, 0, 5, 6, 9, 2, 8, 8, 0, 1>>

VARIABLES
    pipe_start,   \* first integer of the range of this execution
    pipe_end,     \* last integer of the range of this execution
    run,          \* index of the pipeline being executed (0: no pipeline)
    pc,           \* position of the control flow
    it,           \* range iterator: the next integer it will produce
    value,        \* the integer travelling through the stages
    number,       \* factorizer: the still-unfactored remainder
    factor,       \* factorizer: the trial divisor
    gen,          \* state of the prime_factors_generator frame
    item,         \* the factor handed to the consumer, not folded yet
    sum_factors,  \* accumulator: sum of the factors
    count,        \* accumulator: number of factors
    data,         \* the shared buffer of the polymorphic stages
    stage,        \* index of the next polymorphic stage to apply
    results,      \* what each pipeline returned
    log,          \* per pipeline: integers expanded, factors consumed
    stops,        \* how many advances of the cursor signalled exhaustion
    arg,          \* argument of a direct predicate call
    answer        \* outcome of a direct predicate call

vars == <<pipe_start, pipe_end, run, pc, it, value, number, factor, gen, item,
          sum_factors, count, data, stage, results, log, stops, arg, answer>>

(***************************************************************************)
(* Python integer arithmetic.                                              *)
(***************************************************************************)
Abs(a) == IF a < 0 THEN 0 - a ELSE a

\* a Python call either returns a value or raises
Returned(v) == [raised |-> FALSE, value |-> v]
Raised == [raised |-> TRUE, value |-> FALSE]

\* x & y on Python's unbounded two's-complement integers
RECURSIVE BitAnd(_, _)
BitAnd(a, b) ==
    IF a = 0 \/ b = 0 THEN 0
    ELSE IF a = 0 - 1 THEN b
    ELSE IF b = 0 - 1 THEN a
    ELSE (IF a % 2 = 1 /\ b % 2 = 1 THEN 1 ELSE 0) + 2 * BitAnd(a \div 2, b \div 2)

\* the value of the decimal literal `digits` modulo m, for m > 0
RECURSIVE BigMod(_, _, _)
BigMod(digits, m, acc) ==
    IF digits = <<>> THEN acc
    ELSE BigMod(Tail(digits), m, (acc * 10 + Head(digits)) % m)

\* `literal % x == 0` for a positive literal: ZeroDivisionError when x = 0,
\* and for x # 0 true exactly when |x| divides the literal
ModIsZero(digits, x) ==
    IF x = 0 THEN Raised ELSE Returned(BigMod(digits, Abs(x), 0) = 0)

(***************************************************************************)
(* The predicates.                                                         *)
(***************************************************************************)
\* the test `x > 0` forgotten
is_power_of_two_unguarded(x) == Returned(BitAnd(x, x - 1) = 0)

is_power_of_two(x) ==
    IF x > 0 THEN Returned(BitAnd(x, x - 1) = 0) ELSE Returned(FALSE)

\* `x >= 0` written for `x > 0`
is_power_of_three_from_zero(x) ==
    IF x >= 0 THEN ModIsZero(MAX_POWER_OF_THREE, x) ELSE Returned(FALSE)

is_power_of_three(x) ==
    IF x > 0 THEN ModIsZero(MAX_POWER_OF_THREE, x) ELSE Returned(FALSE)

(***************************************************************************)
(* The three factorizers.                                                  *)
(***************************************************************************)
\* `factor += 1 if factor == 2 else 2` is written once in each factorizer

\* `callback(number)` written for `callback(factor)`
prime_factors_callback_wrong_argument(n, f) ==
    IF n > 1
    THEN IF n % f = 0
         THEN [done |-> FALSE, number |-> n \div f, factor |-> f, call |-> n]
         ELSE [done |-> FALSE, number |-> n,
               factor |-> (IF f = 2 THEN f + 1 ELSE f + 2), call |-> 0]
    ELSE [done |-> TRUE, number |-> n, factor |-> f, call |-> 0]

\* prime_factors_callback: the loop test and one turn of the loop;
\* call is the factor the callback is invoked with (0: no invocation)
prime_factors_callback(n, f) ==
    IF n > 1
    THEN IF n % f = 0
         THEN [done |-> FALSE, number |-> n \div f, factor |-> f, call |-> f]
         ELSE [done |-> FALSE, number |-> n,
               factor |-> (IF f = 2 THEN f + 1 ELSE f + 2), call |-> 0]
    ELSE [done |-> TRUE, number |-> n, factor |-> f, call |-> 0]

\* the frame of prime_factors_generator running from its loop test to the
\* next `yield factor` (where it is suspended BEFORE `number //= factor`)
\* or to its end
RECURSIVE GeneratorRun(_, _)
GeneratorRun(n, f) ==
    IF n > 1
    THEN IF n % f = 0
         THEN [gen |-> "suspended", number |-> n, factor |-> f, yield |-> f]
         ELSE GeneratorRun(n, IF f = 2 THEN f + 1 ELSE f + 2)
    ELSE [gen |-> "finished", number |-> n, factor |-> f, yield |-> 0]

\* next() on a prime_factors_generator object: a created frame starts with
\* factor = 2, a suspended one resumes after its yield, a finished one
\* raises StopIteration again (yield 0: StopIteration)
prime_factors_generator(g, n, f) ==
    IF g = "created" THEN GeneratorRun(n, 2)
    ELSE IF g = "suspended" THEN GeneratorRun(n \div f, f)
    ELSE [gen |-> "finished", number |-> n, factor |-> f, yield |-> 0]

\* the divisor is stepped before the loop test, also when the loop ends
RECURSIVE PrimeFactors__next__stepping(_, _)
PrimeFactors__next__stepping(n, f) ==
    IF n > 1
    THEN IF n % f = 0
         THEN [stop |-> FALSE, number |-> n \div f, factor |-> f, ret |-> f]
         ELSE PrimeFactors__next__stepping(n, IF f = 2 THEN f + 1 ELSE f + 2)
    ELSE [stop |-> TRUE, number |-> n, factor |-> (IF f = 2 THEN f + 1 ELSE f + 2),
          ret |-> 0]

\* `return self.number` written for `return self.factor`
RECURSIVE PrimeFactors__next__quotient(_, _)
PrimeFactors__next__quotient(n, f) ==
    IF n > 1
    THEN IF n % f = 0
         THEN [stop |-> FALSE, number |-> n \div f, factor |-> f, ret |-> n \div f]
         ELSE PrimeFactors__next__quotient(n, IF f = 2 THEN f + 1 ELSE f + 2)
    ELSE [stop |-> TRUE, number |-> n, factor |-> f, ret |-> 0]

\* PrimeFactors.__next__ on a cursor whose fields are (n, f): the fields
\* after the call, the factor returned (ret), or StopIteration (stop)
RECURSIVE PrimeFactors__next__(_, _)
PrimeFactors__next__(n, f) ==
    IF n > 1
    THEN IF n % f = 0
         THEN [stop |-> FALSE, number |-> n \div f, factor |-> f, ret |-> f]
         ELSE PrimeFactors__next__(n, IF f = 2 THEN f + 1 ELSE f + 2)
    ELSE [stop |-> TRUE, number |-> n, factor |-> f, ret |-> 0]

\* list(PrimeFactors(n)): the cursor advanced until StopIteration
RECURSIVE PrimeFactorsList(_, _)
PrimeFactorsList(n, f) ==
    LET r == PrimeFactors__next__(n, f)
    IN  IF r.stop THEN <<>> ELSE <<r.ret>> \o PrimeFactorsList(r.number, r.factor)

(***************************************************************************)
(* The polymorphic stages, as functions of the buffer they rewrite.        *)
(***************************************************************************)
RECURSIVE RangeList(_, _)
RangeList(a, b) == IF a > b THEN <<>> ELSE <<a>> \o RangeList(a + 1, b)

CallPredicate(name, x) ==
    IF name = "is_power_of_two" THEN is_power_of_two(x) ELSE is_power_of_three(x)

\* `data.clear()` forgotten: the range is appended to what the buffer held
ForRangeStage_process_append(start, end, buffer) == buffer \o RangeList(start, end)

\* data.clear(); data.extend(range(start, end + 1))
ForRangeStage_process(start, end, buffer) ==
    LET cleared == <<>> IN cleared \o RangeList(start, end)

\* `if self.predicate(x)` written for `if not self.predicate(x)`
RECURSIVE FilterStage_process_keep(_, _)
FilterStage_process_keep(predicate, buffer) ==
    IF buffer = <<>> THEN <<>>
    ELSE (IF CallPredicate(predicate, Head(buffer)).value THEN <<Head(buffer)>> ELSE <<>>)
         \o FilterStage_process_keep(predicate, Tail(buffer))

\* `for x in data: if self.predicate(x): data.remove(x)`: removing while
\* iterating skips the element that follows a removed one
RECURSIVE FilterStage_process_remove(_, _)
FilterStage_process_remove(predicate, buffer) ==
    IF buffer = <<>> THEN <<>>
    ELSE IF CallPredicate(predicate, Head(buffer)).value
         THEN IF Len(buffer) = 1 THEN <<>>
              ELSE <<buffer[2]>> \o FilterStage_process_remove(predicate, Tail(Tail(buffer)))
         ELSE <<Head(buffer)>> \o FilterStage_process_remove(predicate, Tail(buffer))

\* data[:] = [x for x in data if not self.predicate(x)]
RECURSIVE FilterStage_process(_, _)
FilterStage_process(predicate, buffer) ==
    IF buffer = <<>> THEN <<>>
    ELSE (IF CallPredicate(predicate, Head(buffer)).value THEN <<>> ELSE <<Head(buffer)>>)
         \o FilterStage_process(predicate, Tail(buffer))

\* `result = list(PrimeFactors(val))` written for `result.extend(...)`
PrimeFactorsStage_process_last(buffer) ==
    IF buffer = <<>> THEN <<>> ELSE PrimeFactorsList(buffer[Len(buffer)], 2)

\* result.extend(PrimeFactors(val)) for every val; data[:] = result
RECURSIVE PrimeFactorsStage_process(_)
PrimeFactorsStage_process(buffer) ==
    IF buffer = <<>> THEN <<>>
    ELSE PrimeFactorsList(Head(buffer), 2) \o PrimeFactorsStage_process(Tail(buffer))

RECURSIVE SumList(_)
SumList(s) == IF s = <<>> THEN 0 ELSE Head(s) + SumList(Tail(s))

(***************************************************************************)
(* The harness: the five test functions run the five pipelines one after   *)
(* the other over the same range.  Runs 1..5 are the pipelines as written  *)
(* (power-of-two filter first); runs 6..10 are the same five pipelines     *)
(* with the two filter predicates exchanged.                               *)
(***************************************************************************)
Strategies == <<"callbacks", "generators", "iterators", "dynamic_dispatch", "async">>
NRuns == 2 * Len(Strategies)
Strategy(r) == Strategies[((r - 1) % Len(Strategies)) + 1]
Swapped(r) == r > Len(Strategies)
FirstPredicate(r) == IF Swapped(r) THEN "is_power_of_three" ELSE "is_power_of_two"
SecondPredicate(r) == IF Swapped(r) THEN "is_power_of_two" ELSE "is_power_of_three"

EntryPc(s) ==
    CASE s = "callbacks" -> "cb_for"
      [] s = "generators" -> "g_range"
      [] s = "iterators" -> "i_for"
      [] s = "dynamic_dispatch" -> "d_stage"
      [] s = "async" -> "a_range"

NoResult == <<>>
EmptyLog == [values |-> <<>>, factors |-> <<>>]

\* observation: integer v entered the expansion stage of the current run
Expanding(v) == [log EXCEPT ![run].values = Append(@, v)]
\* observation: factor f was delivered to the consumer of the current run
Consuming(f) == [log EXCEPT ![run].factors = Append(@, f)]

\* `or` written for `and`
Survives_or(r, v) ==
    LET p == CallPredicate(FirstPredicate(r), v)
    IN  IF p.raised THEN Raised
        ELSE IF ~p.value THEN Returned(TRUE)
        ELSE LET q == CallPredicate(SecondPredicate(r), v)
             IN  IF q.raised THEN Raised ELSE Returned(~q.value)

\* `not P(value) and not Q(value)` with P, Q the first and second predicate
Survives(r, v) ==
    LET p == CallPredicate(FirstPredicate(r), v)
    IN  IF p.raised THEN Raised
        ELSE IF p.value THEN Returned(FALSE)
        ELSE LET q == CallPredicate(SecondPredicate(r), v)
             IN  IF q.raised THEN Raised ELSE Returned(~q.value)

range_vars == <<pipe_start, pipe_end>>
direct_vars == <<stops, arg, answer>>

\* a test function calls its pipeline: fresh locals
test_pipeline ==
    /\ pc = "idle"
    /\ run \in 1..NRuns
    /\ pc' = EntryPc(Strategy(run))
    /\ it' = pipe_start
    /\ value' = 0 /\ number' = 0 /\ factor' = 0 /\ gen' = "none" /\ item' = 0
    /\ sum_factors' = 0 /\ count' = 0
    /\ data' = <<>> /\ stage' = 1
    /\ UNCHANGED <<range_vars, run, results, log, direct_vars>>

\* `return pair` of the current pipeline, back in the harness
Return(pair) ==
    /\ results' = [results EXCEPT ![run] = pair]
    /\ run' = run + 1
    /\ pc' = "idle"

(***************************************************************************)
(* Callbacks.                                                              *)
(***************************************************************************)
\* the for loop of pipeline_callbacks: its next turn, or the return
pipeline_callbacks ==
    /\ pc = "cb_for"
    /\ IF it > pipe_end
       THEN /\ Return(<<sum_factors, count>>)
            /\ UNCHANGED <<it, value, number, factor, log>>
       ELSE LET keep == Survives(run, it)
            IN  /\ it' = it + 1
                /\ value' = it
                /\ pc' = IF keep.raised THEN "raised"
                         ELSE IF keep.value THEN "cb_factor" ELSE "cb_for"
                /\ IF ~keep.raised /\ keep.value
                   THEN number' = it /\ factor' = 2 /\ log' = Expanding(it)
                   ELSE UNCHANGED <<number, factor, log>>
                /\ UNCHANGED <<results, run>>
    /\ UNCHANGED <<range_vars, gen, item, sum_factors, count, data, stage, direct_vars>>

\* the else branch of the factorizer's loop lost: the divisor never moves
pipeline_callbacks_factor_stuck ==
    /\ pc = "cb_factor"
    /\ LET s == prime_factors_callback(number, factor)
       IN  /\ pc' = IF s.done THEN "cb_for" ELSE "cb_factor"
           /\ number' = s.number
           /\ factor' = factor
           /\ IF s.call # 0
              THEN /\ sum_factors' = sum_factors + s.call
                   /\ count' = count + 1
                   /\ log' = Consuming(s.call)
              ELSE UNCHANGED <<sum_factors, count, log>>
    /\ UNCHANGED <<range_vars, run, it, value, gen, item, data, stage, results, direct_vars>>

\* prime_factors_callback(value, record_factor): one turn of its loop, with
\* record_factor run when it is invoked, or the return to the for loop
pipeline_callbacks_factor ==
    /\ pc = "cb_factor"
    /\ LET s == prime_factors_callback(number, factor)
       IN  /\ pc' = IF s.done THEN "cb_for" ELSE "cb_factor"
           /\ number' = s.number
           /\ factor' = s.factor
           /\ IF s.call # 0
              THEN /\ sum_factors' = sum_factors + s.call
                   /\ count' = count + 1
                   /\ log' = Consuming(s.call)
              ELSE UNCHANGED <<sum_factors, count, log>>
    /\ UNCHANGED <<range_vars, run, it, value, gen, item, data, stage, results, direct_vars>>

(***************************************************************************)
(* Iterators.                                                              *)
(***************************************************************************)
\* the outer for loop of pipeline_iterators: its next turn (constructing
\* PrimeFactors(value) for a surviving value), or the return
pipeline_iterators ==
    /\ pc = "i_for"
    /\ IF it > pipe_end
       THEN /\ Return(<<sum_factors, count>>)
            /\ UNCHANGED <<it, value, number, factor, log>>
       ELSE LET keep == Survives(run, it)
            IN  /\ it' = it + 1
                /\ value' = it
                /\ pc' = IF keep.raised THEN "raised"
                         ELSE IF keep.value THEN "i_next" ELSE "i_for"
                /\ IF ~keep.raised /\ keep.value
                   THEN number' = it /\ factor' = 2 /\ log' = Expanding(it)
                   ELSE UNCHANGED <<number, factor, log>>
                /\ UNCHANGED <<results, run>>
    /\ UNCHANGED <<range_vars, gen, item, sum_factors, count, data, stage, direct_vars>>

\* the inner for loop calls __next__ on the cursor
pipeline_iterators_next ==
    /\ pc = "i_next"
    /\ LET r == PrimeFactors__next__(number, factor)
       IN  /\ number' = r.number
           /\ factor' = r.factor
           /\ item' = r.ret
           /\ pc' = IF r.stop THEN "i_for" ELSE "i_body"
    /\ UNCHANGED <<range_vars, run, it, value, gen, sum_factors, count, data, stage,
                   results, log, direct_vars>>

\* the body of the inner for loop
pipeline_iterators_body ==
    /\ pc = "i_body"
    /\ sum_factors' = sum_factors + item
    /\ count' = count + 1
    /\ log' = Consuming(item)
    /\ pc' = "i_next"
    /\ UNCHANGED <<range_vars, run, it, value, number, factor, gen, item, data, stage,
                   results, direct_vars>>

(***************************************************************************)
(* Generators: range, filter, filter, map, chain.from_iterable, reduce.    *)
(* Nothing runs until reduce pulls; every pull goes down the chain.        *)
(***************************************************************************)
\* next() on the range object, asked by the first filter: the next integer,
\* or StopIteration, which ends every stage and reduce, and the pipeline returns
pipeline_generators_range ==
    /\ pc = "g_range"
    /\ IF it > pipe_end
       THEN /\ Return(<<sum_factors, count>>)
            /\ UNCHANGED <<it, value>>
       ELSE /\ value' = it
            /\ it' = it + 1
            /\ pc' = "g_filter1"
            /\ UNCHANGED <<results, run>>
    /\ UNCHANGED <<range_vars, number, factor, gen, item, sum_factors, count, data, stage,
                   log, direct_vars>>

\* the first filter object applies its lambda to the integer it pulled
pipeline_generators_filter1 ==
    /\ pc = "g_filter1"
    /\ LET p == CallPredicate(FirstPredicate(run), value)
       IN  pc' = IF p.raised THEN "raised"
                 ELSE IF p.value THEN "g_range" ELSE "g_filter2"
    /\ UNCHANGED <<range_vars, run, it, value, number, factor, gen, item, sum_factors,
                   count, data, stage, results, log, direct_vars>>

\* the second filter object applies its lambda to the integer it pulled
pipeline_generators_filter2 ==
    /\ pc = "g_filter2"
    /\ LET p == CallPredicate(SecondPredicate(run), value)
       IN  pc' = IF p.raised THEN "raised"
                 ELSE IF p.value THEN "g_range" ELSE "g_expand"
    /\ UNCHANGED <<range_vars, run, it, value, number, factor, gen, item, sum_factors,
                   count, data, stage, results, log, direct_vars>>

\* map calls prime_factors_generator(value): a generator object is created
\* (its body has not started) and chain.from_iterable takes it as current
pipeline_generators_map ==
    /\ pc = "g_expand"
    /\ gen' = "created"
    /\ number' = value
    /\ log' = Expanding(value)
    /\ pc' = "g_resume"
    /\ UNCHANGED <<range_vars, run, it, value, factor, item, sum_factors, count, data,
                   stage, results, direct_vars>>

\* a chain that takes only the first item of each generator
pipeline_generators_chain_first ==
    /\ pc = "g_resume"
    /\ LET r == IF gen = "created"
                THEN prime_factors_generator(gen, number, factor)
                ELSE [gen |-> "finished", number |-> number, factor |-> factor, yield |-> 0]
       IN  /\ gen' = r.gen
           /\ number' = r.number
           /\ factor' = r.factor
           /\ item' = r.yield
           /\ pc' = IF r.gen = "suspended" THEN "g_fold" ELSE "g_range"
    /\ UNCHANGED <<range_vars, run, it, value, sum_factors, count, data, stage, results,
                   log, direct_vars>>

\* chain.from_iterable calls next() on its current generator; when that is
\* exhausted it asks map for the next one
pipeline_generators_chain ==
    /\ pc = "g_resume"
    /\ LET r == prime_factors_generator(gen, number, factor)
       IN  /\ gen' = r.gen
           /\ number' = r.number
           /\ factor' = r.factor
           /\ item' = r.yield
           /\ pc' = IF r.gen = "suspended" THEN "g_fold" ELSE "g_range"
    /\ UNCHANGED <<range_vars, run, it, value, sum_factors, count, data, stage, results,
                   log, direct_vars>>

\* reduce applies its lambda to the accumulator and the factor it pulled
pipeline_generators_reduce ==
    /\ pc = "g_fold"
    /\ sum_factors' = sum_factors + item
    /\ count' = count + 1
    /\ log' = Consuming(item)
    /\ pc' = "g_resume"
    /\ UNCHANGED <<range_vars, run, it, value, number, factor, gen, item, data, stage,
                   results, direct_vars>>

(***************************************************************************)
(* Async generators.  asyncio.run drives a single coroutine and no stage   *)
(* awaits anything but the stage below it, so control moves exactly as in  *)
(* a chain of synchronous generators.                                      *)
(***************************************************************************)
\* `range(end, start - 1, -1)`: the integers are yielded in descending order
for_range_async_descending ==
    /\ pc = "a_range"
    /\ IF it > pipe_end
       THEN /\ Return(<<sum_factors, count>>)
            /\ UNCHANGED <<it, value>>
       ELSE /\ value' = pipe_end - (it - pipe_start)
            /\ it' = it + 1
            /\ pc' = "a_filter1"
            /\ UNCHANGED <<results, run>>
    /\ UNCHANGED <<range_vars, number, factor, gen, item, sum_factors, count, data, stage,
                   log, direct_vars>>

\* for_range_async is resumed: it yields the next integer, or ends, which
\* ends every async generator and the consuming loop, and the pipeline returns
for_range_async ==
    /\ pc = "a_range"
    /\ IF it > pipe_end
       THEN /\ Return(<<sum_factors, count>>)
            /\ UNCHANGED <<it, value>>
       ELSE /\ value' = it
            /\ it' = it + 1
            /\ pc' = "a_filter1"
            /\ UNCHANGED <<results, run>>
    /\ UNCHANGED <<range_vars, number, factor, gen, item, sum_factors, count, data, stage,
                   log, direct_vars>>

\* the first filter_async received an integer and tests its predicate
filter_async_first ==
    /\ pc = "a_filter1"
    /\ LET p == CallPredicate(FirstPredicate(run), value)
       IN  pc' = IF p.raised THEN "raised"
                 ELSE IF p.value THEN "a_range" ELSE "a_filter2"
    /\ UNCHANGED <<range_vars, run, it, value, number, factor, gen, item, sum_factors,
                   count, data, stage, results, log, direct_vars>>

\* the second filter_async received an integer and tests its predicate
filter_async_second ==
    /\ pc = "a_filter2"
    /\ LET p == CallPredicate(SecondPredicate(run), value)
       IN  pc' = IF p.raised THEN "raised"
                 ELSE IF p.value THEN "a_range" ELSE "a_expand"
    /\ UNCHANGED <<range_vars, run, it, value, number, factor, gen, item, sum_factors,
                   count, data, stage, results, log, direct_vars>>

\* prime_factors_async received val and calls prime_factors_generator(val)
prime_factors_async ==
    /\ pc = "a_expand"
    /\ gen' = "created"
    /\ number' = value
    /\ log' = Expanding(value)
    /\ pc' = "a_resume"
    /\ UNCHANGED <<range_vars, run, it, value, factor, item, sum_factors, count, data,
                   stage, results, direct_vars>>

\* prime_factors_async's inner for loop calls next() on the generator and
\* yields the factor; when the generator ends it awaits the next val
prime_factors_async_inner ==
    /\ pc = "a_resume"
    /\ LET r == prime_factors_generator(gen, number, factor)
       IN  /\ gen' = r.gen
           /\ number' = r.number
           /\ factor' = r.factor
           /\ item' = r.yield
           /\ pc' = IF r.gen = "suspended" THEN "a_fold" ELSE "a_range"
    /\ UNCHANGED <<range_vars, run, it, value, sum_factors, count, data, stage, results,
                   log, direct_vars>>

\* the body of the `async for factor in values` loop of pipeline_async
pipeline_async ==
    /\ pc = "a_fold"
    /\ sum_factors' = sum_factors + item
    /\ count' = count + 1
    /\ log' = Consuming(item)
    /\ pc' = "a_resume"
    /\ UNCHANGED <<range_vars, run, it, value, number, factor, gen, item, data, stage,
                   results, direct_vars>>

(***************************************************************************)
(* Polymorphic stages.                                                     *)
(***************************************************************************)
\* the loop `for stage in pipeline_stages: stage.process(data)`, then the
\* return of (sum(data), len(data))
pipeline_dynamic_dispatch ==
    /\ pc = "d_stage"
    /\ IF stage > 4
       THEN /\ Return(<<SumList(data), Len(data)>>)
            /\ UNCHANGED <<data, stage, log>>
       ELSE /\ data' = CASE stage = 1 -> ForRangeStage_process(pipe_start, pipe_end, data)
                         [] stage = 2 -> FilterStage_process(FirstPredicate(run), data)
                         [] stage = 3 -> FilterStage_process(SecondPredicate(run), data)
                         [] stage = 4 -> PrimeFactorsStage_process(data)
            /\ stage' = stage + 1
            /\ log' = IF stage = 4
                      THEN [log EXCEPT ![run] = [values |-> data, factors |-> data']]
                      ELSE log
            /\ UNCHANGED <<results, run, pc>>
    /\ UNCHANGED <<range_vars, it, value, number, factor, gen, item, sum_factors, count,
                   direct_vars>>

(***************************************************************************)
(* The pipelines over a range.                                             *)
(***************************************************************************)
\* the ranges [a, b] with 1 <= a <= b <= MaxEnd
BoundedRanges == {r \in (1..MaxEnd) \X (1..MaxEnd) : r[1] <= r[2]}
\* those and the range of the source, [PIPE_START, PIPE_END]
Ranges == BoundedRanges \cup {<<PIPE_START, PIPE_END>>}

\* the harness about to call the first pipeline, for a range among `ranges`
InitOver(ranges) ==
    /\ \E r \in ranges : pipe_start = r[1] /\ pipe_end = r[2]
    /\ run = 1
    /\ pc = "idle"
    /\ it = 0 /\ value = 0 /\ number = 0 /\ factor = 0 /\ gen = "none" /\ item = 0
    /\ sum_factors = 0 /\ count = 0
    /\ data = <<>> /\ stage = 1
    /\ results = [r \in 1..NRuns |-> NoResult]
    /\ log = [r \in 0..NRuns |-> EmptyLog]
    /\ stops = 0 /\ arg = 0 /\ answer = NoResult

Init == InitOver(Ranges)

Next ==
    \/ test_pipeline
    \/ pipeline_callbacks
    \/ pipeline_callbacks_factor
    \/ pipeline_generators_range
    \/ pipeline_generators_filter1
    \/ pipeline_generators_filter2
    \/ pipeline_generators_map
    \/ pipeline_generators_chain
    \/ pipeline_generators_reduce
    \/ pipeline_iterators
    \/ pipeline_iterators_next
    \/ pipeline_iterators_body
    \/ pipeline_dynamic_dispatch
    \/ for_range_async
    \/ filter_async_first
    \/ filter_async_second
    \/ prime_factors_async
    \/ prime_factors_async_inner
    \/ pipeline_async

Spec == Init /\ [][Next]_vars

\* every pipeline runs on one thread, which keeps running until it returns;
\* the ranges are the bounded ones
InitBounded == InitOver(BoundedRanges)
FairSpec == InitBounded /\ [][Next]_vars /\ WF_vars(Next)

(***************************************************************************)
(* The factorizers called directly on one number: prime_factors_callback   *)
(* with a callback that appends to a list, prime_factors_generator pulled  *)
(* by a for loop, and a PrimeFactors cursor advanced by next(), also after *)
(* it has signalled exhaustion.  value keeps the number passed in, and     *)
(* log[0].factors the factors emitted so far.                              *)
(***************************************************************************)
pipeline_vars == <<range_vars, run, it, sum_factors, count, data, stage, results>>

call_prime_factors_callback ==
    /\ pc = "direct_callback"
    /\ LET s == prime_factors_callback(number, factor)
       IN  /\ pc' = IF s.done THEN "returned" ELSE "direct_callback"
           /\ number' = s.number
           /\ factor' = s.factor
           /\ log' = IF s.call # 0 THEN Consuming(s.call) ELSE log
    /\ UNCHANGED <<pipeline_vars, value, gen, item, direct_vars>>

next_prime_factors_generator ==
    /\ pc = "direct_generator"
    /\ LET r == prime_factors_generator(gen, number, factor)
       IN  /\ gen' = r.gen
           /\ number' = r.number
           /\ factor' = r.factor
           /\ item' = r.yield
           /\ log' = IF r.gen = "suspended" THEN Consuming(r.yield) ELSE log
           /\ pc' = IF r.gen = "suspended" THEN "direct_generator" ELSE "returned"
    /\ UNCHANGED <<pipeline_vars, value, direct_vars>>

next_PrimeFactors ==
    /\ pc = "direct_cursor"
    /\ stops < MaxStops
    /\ LET r == PrimeFactors__next__(number, factor)
       IN  /\ number' = r.number
           /\ factor' = r.factor
           /\ item' = r.ret
           /\ log' = IF r.stop THEN log ELSE Consuming(r.ret)
           /\ stops' = IF r.stop THEN stops + 1 ELSE stops
    /\ UNCHANGED <<pipeline_vars, pc, value, gen, arg, answer>>

\* the state right after the call or the construction: line 237, the
\* creation of the generator object, PrimeFactors.__init__
InitFactor ==
    /\ pipe_start = 1 /\ pipe_end = 1
    /\ run = 0
    /\ pc \in {"direct_callback", "direct_generator", "direct_cursor"}
    /\ value \in MinNumber..MaxNumber
    /\ number = value
    /\ factor = IF pc = "direct_generator" THEN 0 ELSE 2
    /\ gen = IF pc = "direct_generator" THEN "created" ELSE "none"
    /\ it = 0 /\ item = 0
    /\ sum_factors = 0 /\ count = 0
    /\ data = <<>> /\ stage = 1
    /\ results = [r \in 1..NRuns |-> NoResult]
    /\ log = [r \in 0..NRuns |-> EmptyLog]
    /\ stops = 0 /\ arg = 0 /\ answer = NoResult

NextFactor ==
    \/ call_prime_factors_callback
    \/ next_prime_factors_generator
    \/ next_PrimeFactors

SpecFactor == InitFactor /\ [][NextFactor]_vars

(***************************************************************************)
(* The predicates called directly on one integer.                          *)
(***************************************************************************)
call_is_power_of_two ==
    /\ pc = "direct_predicate"
    /\ answer' = [predicate |-> "is_power_of_two", outcome |-> is_power_of_two(arg)]
    /\ pc' = "answered"
    /\ UNCHANGED <<pipeline_vars, value, number, factor, gen, item, log, stops, arg>>

call_is_power_of_three ==
    /\ pc = "direct_predicate"
    /\ answer' = [predicate |-> "is_power_of_three", outcome |-> is_power_of_three(arg)]
    /\ pc' = "answered"
    /\ UNCHANGED <<pipeline_vars, value, number, factor, gen, item, log, stops, arg>>

InitPredicate ==
    /\ pipe_start = 1 /\ pipe_end = 1
    /\ run = 0
    /\ pc = "direct_predicate"
    /\ arg \in (0 - MaxArg)..MaxArg
    /\ answer = NoResult
    /\ it = 0 /\ value = 0 /\ number = 0 /\ factor = 0 /\ gen = "none" /\ item = 0
    /\ sum_factors = 0 /\ count = 0
    /\ data = <<>> /\ stage = 1
    /\ results = [r \in 1..NRuns |-> NoResult]
    /\ log = [r \in 0..NRuns |-> EmptyLog]
    /\ stops = 0

NextPredicate ==
    \/ call_is_power_of_two
    \/ call_is_power_of_three

SpecPredicate == InitPredicate /\ [][NextPredicate]_vars

(***************************************************************************)
(* ForRangeStage(start, end).process(data) called directly on a buffer     *)
(* with prior content.  log[0].values keeps the buffer as it was passed.   *)
(***************************************************************************)
\* what the buffer may hold before the call: at most MaxPrior integers
PriorValues == {0, 7}
RECURSIVE PriorBuffers(_)
PriorBuffers(n) ==
    IF n = 0 THEN {<<>>}
    ELSE PriorBuffers(n - 1)
         \cup {Append(b, v) : b \in {q \in PriorBuffers(n - 1) : Len(q) = n - 1},
                              v \in PriorValues}

call_ForRangeStage_process ==
    /\ pc = "direct_stage"
    /\ data' = ForRangeStage_process(pipe_start, pipe_end, data)
    /\ pc' = "processed"
    /\ UNCHANGED <<range_vars, run, it, value, number, factor, gen, item, sum_factors,
                   count, stage, results, log, direct_vars>>

\* a ForRangeStage constructed with any start and end, and any buffer
InitStage ==
    /\ pipe_start \in 1..MaxEnd /\ pipe_end \in 0..MaxEnd
    /\ run = 0
    /\ pc = "direct_stage"
    /\ data \in PriorBuffers(MaxPrior)
    /\ log = [r \in 0..NRuns |-> IF r = 0 THEN [values |-> data, factors |-> <<>>]
                                          ELSE EmptyLog]
    /\ it = 0 /\ value = 0 /\ number = 0 /\ factor = 0 /\ gen = "none" /\ item = 0
    /\ sum_factors = 0 /\ count = 0
    /\ stage = 1
    /\ results = [r \in 1..NRuns |-> NoResult]
    /\ stops = 0 /\ arg = 0 /\ answer = NoResult

NextStage == call_ForRangeStage_process

SpecStage == InitStage /\ [][NextStage]_vars

(***************************************************************************)
(* Reference notions used to state the properties.                         *)
(***************************************************************************)
\* {b^0, b^1, ...} up to limit
RECURSIVE PowersFrom(_, _, _)
PowersFrom(b, p, limit) == IF p > limit THEN {} ELSE {p} \cup PowersFrom(b, p * b, limit)
PowersOf(b, limit) == PowersFrom(b, 1, limit)

\* number of set bits of x >= 0
RECURSIVE SetBits(_)
SetBits(x) == IF x = 0 THEN 0 ELSE (x % 2) + SetBits(x \div 2)

Returns(r) == run > r
Written == 1..Len(Strategies)
PIPE_EXPECTED == <<PIPE_EXPECTED_SUM, PIPE_EXPECTED_COUNT>>

IsPrime(p) == p > 1 /\ \A d \in 2..(p - 1) : p % d # 0

RECURSIVE Product(_)
Product(seq) == IF seq = <<>> THEN 1 ELSE Head(seq) * Product(Tail(seq))

NonDecreasing(seq) == \A i \in 1..(Len(seq) - 1) : seq[i] <= seq[i + 1]

\* the prime factorization of n >= 1, ascending, by its least divisors
LeastDivisor(n) == CHOOSE d \in 2..n : n % d = 0 /\ \A e \in 2..(d - 1) : n % e # 0
RECURSIVE Factorization(_)
Factorization(n) ==
    IF n <= 1 THEN <<>> ELSE <<LeastDivisor(n)>> \o Factorization(n \div LeastDivisor(n))

\* the factorizations of the integers of a sequence, one after the other
RECURSIVE Expansion(_)
Expansion(seq) ==
    IF seq = <<>> THEN <<>> ELSE Factorization(Head(seq)) \o Expansion(Tail(seq))

\* direct calls: the factors emitted so far, and whether the factorizer ended
Emitted == log[0].factors
Exhausted == pc = "returned" \/ (pc = "direct_cursor" /\ stops > 0)

(***************************************************************************)
(* Properties.                                                             *)
(***************************************************************************)
\* C1: over the canonical range [3, 49] each of the five pipelines returns
\* exactly (645, 84).
C1_CanonicalResult ==
    (pipe_start = PIPE_START /\ pipe_end = PIPE_END) =>
        \A r \in Written : Returns(r) => results[r] = PIPE_EXPECTED

C1_Witness ==
    /\ pipe_start = PIPE_START /\ pipe_end = PIPE_END
    /\ Returns(Len(Strategies))
    /\ \A r \in Written : results[r] = <<645, 84>>

\* C2: over any range [a, b] with 1 <= a <= b the five pipelines return the
\* same (sum, count) pair as each other.
C2_SameResult ==
    (1 <= pipe_start /\ pipe_start <= pipe_end) =>
        \A r1, r2 \in Written : (Returns(r1) /\ Returns(r2)) => results[r1] = results[r2]

C2_Witness ==
    /\ Returns(Len(Strategies))
    /\ pipe_start = 5 /\ pipe_end = 12
    /\ results[1] = <<42, 10>>
    /\ results[5] = <<42, 10>>

\* C5: over a one-element range [a, a] whose element is a power of two or a
\* power of three, each of the five pipelines returns (0, 0).
C5_FilteredSingleton ==
    (/\ pipe_start = pipe_end
     /\ pipe_start >= 1
     /\ pipe_start \in PowersOf(2, pipe_start) \cup PowersOf(3, pipe_start)) =>
        \A r \in Written : Returns(r) => results[r] = <<0, 0>>

C5_Witness ==
    /\ pipe_start = 9 /\ pipe_end = 9
    /\ Returns(Len(Strategies))
    /\ \A r \in Written : results[r] = <<0, 0>>

\* C6: with the power-of-three filter applied before the power-of-two
\* filter, every pipeline expands the same integers in the same order, and
\* returns the same pair, as with the power-of-two filter first.
C6_FilterOrder ==
    (1 <= pipe_start /\ pipe_start <= pipe_end) =>
        \A r \in Written :
            Returns(r + Len(Strategies)) =>
                /\ log[r + Len(Strategies)].values = log[r].values
                /\ results[r + Len(Strategies)] = results[r]

C6_Witness ==
    /\ run = NRuns + 1
    /\ pipe_start = 1 /\ pipe_end = 10
    /\ \A r \in 1..NRuns : log[r].values = <<5, 6, 7, 10>>

\* C7: on every integer x of the domain, 0 and the negative ones included,
\* is_power_of_three(x) returns without raising, and returns true exactly
\* when x is one of 1, 3, 9, 27, ...
C7_PowerOfThree ==
    (pc = "answered" /\ answer.predicate = "is_power_of_three") =>
        /\ ~answer.outcome.raised
        /\ answer.outcome.value = (arg \in PowersOf(3, MaxArg))

C7_Witness ==
    /\ pc = "answered" /\ answer.predicate = "is_power_of_three"
    /\ arg = 729
    /\ answer.outcome = Returned(TRUE)

\* C8: on every integer x, is_power_of_two(x) returns without raising, and
\* returns true exactly when x > 0 and x has exactly one set bit, that is
\* when x is one of 1, 2, 4, 8, ...; it returns false for 0 and negative x.
C8_PowerOfTwo ==
    (pc = "answered" /\ answer.predicate = "is_power_of_two") =>
        /\ ~answer.outcome.raised
        /\ answer.outcome.value = (arg > 0 /\ SetBits(Abs(arg)) = 1)
        /\ answer.outcome.value = (arg \in PowersOf(2, MaxArg))
        /\ (arg <= 0 => answer.outcome.value = FALSE)

C8_Witness ==
    /\ pc = "answered" /\ answer.predicate = "is_power_of_two"
    /\ arg = 1024
    /\ answer.outcome = Returned(TRUE)

\* C3: called on any n >= 1, each of the three factorizers emits primes
\* only, in non-decreasing order, whose product is n once it has ended:
\* nothing for n = 1, at least one factor for n > 1.
C3_Factorization ==
    (pc \in {"direct_callback", "direct_generator", "direct_cursor", "returned"}
     /\ value >= 1) =>
        /\ NonDecreasing(Emitted)
        /\ \A i \in 1..Len(Emitted) : IsPrime(Emitted[i])
        /\ Exhausted =>
            /\ Product(Emitted) = value
            /\ (value = 1 => Emitted = <<>>)
            /\ (value > 1 => Len(Emitted) >= 1)

\* 34 = 2 * 17: the trial divisor went through 9 and 15 before reaching 17
C3_Witness ==
    /\ pc = "direct_cursor" /\ stops > 0
    /\ value = 34
    /\ Emitted = <<2, 17>>
    /\ factor = 17

AllReturned == run > Len(Strategies) /\ \A r \in Written : Len(results[r]) = 2

\* C4: every pipeline, over any range [a, b] with 1 <= a <= b, ends by
\* returning a (sum, count) pair: no stage raises, and every factorization
\* loop is left, after finitely many steps, with remainder 1.
C4_Terminates ==
    /\ <>AllReturned
    /\ [](pc # "raised")
    /\ [][(pc \in {"cb_factor", "i_next", "g_resume", "a_resume"}
           /\ pc' \in {"cb_for", "i_for", "g_range", "a_range"}) => number' = 1]_vars

C4_Witness ==
    /\ AllReturned
    /\ pipe_start = 1 /\ pipe_end = 11
    /\ \A r \in Written : results[r] = <<35, 7>>

\* C9 as claimed: for a cursor built for n >= 1, in every state the
\* remainder times the product of the factors returned so far is n, the
\* remainder is >= 1, and the trial divisor is 2 or an odd number >= 3 and
\* never decreases; an advance that returns a factor divides the remainder
\* by it and keeps the divisor unchanged.
C9_AdvanceKeepsDivisor ==
    /\ []((pc = "direct_cursor" /\ value >= 1) =>
            /\ number * Product(Emitted) = value
            /\ number >= 1
            /\ (factor = 2 \/ (factor >= 3 /\ factor % 2 = 1)))
    /\ [][(pc = "direct_cursor" /\ value >= 1) =>
            /\ factor' >= factor
            /\ Len(Emitted') > Len(Emitted) =>
                /\ Emitted' = Append(Emitted, item')
                /\ number' * item' = number
                /\ factor' = factor]_vars

\* C9, amended: for a cursor built for n >= 1, in every state the remainder
\* times the product of the factors returned so far is n, the remainder is
\* >= 1, and the trial divisor is 2 or an odd number >= 3 and never
\* decreases; an advance that returns a factor f divides the remainder by f
\* and leaves the divisor equal to f, which is the divisor the advance
\* started with only when that one already divided the remainder.
C9_Cursor ==
    /\ []((pc = "direct_cursor" /\ value >= 1) =>
            /\ number * Product(Emitted) = value
            /\ number >= 1
            /\ (factor = 2 \/ (factor >= 3 /\ factor % 2 = 1)))
    /\ [][(pc = "direct_cursor" /\ value >= 1) =>
            /\ factor' >= factor
            /\ Len(Emitted') > Len(Emitted) =>
                /\ Emitted' = Append(Emitted, item')
                /\ number' * item' = number
                /\ factor' = item'
                /\ (factor' = factor) = (number % factor = 0)]_vars

\* 15: the first advance moved the divisor from 2 to 3 and returned 3
C9_Witness ==
    /\ pc = "direct_cursor"
    /\ value = 15
    /\ Emitted = <<3>>
    /\ number = 5 /\ factor = 3

\* C10: in pipeline_generators the range is asked for its next integer only
\* when every factor of every integer admitted so far has been folded into
\* the accumulator by reduce.
C10_DepthFirst ==
    (Strategy(run) = "generators" /\ pc = "g_range") =>
        /\ log[run].factors = Expansion(log[run].values)
        /\ sum_factors = SumList(log[run].factors)
        /\ count = Len(log[run].factors)

\* the range is about to be asked for 7 once 2 and 3, the factors of 6,
\* have been folded
C10_Witness ==
    /\ Strategy(run) = "generators" /\ pc = "g_range"
    /\ it = 7 /\ pipe_end >= 7
    /\ log[run].values = <<5, 6>>
    /\ log[run].factors = <<5, 2, 3>>
    /\ sum_factors = 10 /\ count = 3

\* the runs, as written, of pipeline_callbacks and of pipeline_async
CallbacksRun == CHOOSE r \in Written : Strategy(r) = "callbacks"
AsyncRun == CHOOSE r \in Written : Strategy(r) = "async"

\* C11: the factors received by the consuming loop of pipeline_async are,
\* element for element and in the same order, the factors pipeline_callbacks
\* passes to its handler: the surviving integers in ascending order, and for
\* each of them its factors in ascending order.
C11_AsyncOrder ==
    Returns(AsyncRun) =>
        /\ log[AsyncRun].factors = log[CallbacksRun].factors
        /\ log[AsyncRun].values = log[CallbacksRun].values
        /\ \A i \in 1..(Len(log[AsyncRun].values) - 1) :
               log[AsyncRun].values[i] < log[AsyncRun].values[i + 1]
        /\ log[AsyncRun].factors = Expansion(log[AsyncRun].values)

C11_Witness ==
    /\ Returns(AsyncRun)
    /\ pipe_start = 10 /\ pipe_end = 14
    /\ log[AsyncRun].factors = <<2, 5, 11, 2, 2, 3, 13, 2, 7>>
    /\ log[CallbacksRun].factors = <<2, 5, 11, 2, 2, 3, 13, 2, 7>>

IsComposite(n) == n > 1 /\ ~IsPrime(n)
IsPower(n) == n \in PowersOf(2, n) \cup PowersOf(3, n)

\* C13 as claimed: in every pipeline and for every range, every value that
\* reaches the expansion stage is a composite number that is neither a
\* power of two nor a power of three.
C13_ExpandsComposites ==
    (1 <= pipe_start /\ pipe_start <= pipe_end) =>
        \A r \in Written : \A i \in 1..Len(log[r].values) :
            IsComposite(log[r].values[i]) /\ ~IsPower(log[r].values[i])

\* C13, amended: in every pipeline and for every range, every value that
\* reaches the expansion stage is an integer of the range that is neither a
\* power of two nor a power of three; it may be prime.
C13_ExpandsNonPowers ==
    (1 <= pipe_start /\ pipe_start <= pipe_end) =>
        \A r \in Written : \A i \in 1..Len(log[r].values) :
            /\ log[r].values[i] \in pipe_start..pipe_end
            /\ ~IsPower(log[r].values[i])

\* over [4, 8] every pipeline has expanded the primes 5 and 7 besides 6
C13_Witness ==
    /\ Returns(Len(Strategies))
    /\ pipe_start = 4 /\ pipe_end = 8
    /\ \A r \in Written : log[r].values = <<5, 6, 7>>

\* C14: once a PrimeFactors cursor has signalled exhaustion (its remainder
\* is 1 when it was built for n >= 1), every later advance signals
\* exhaustion again, returns no factor and leaves the remainder and the
\* trial divisor unchanged; a cursor built for a number <= 1 signals
\* exhaustion on its first advance.
C14_ExhaustedStays ==
    /\ []((pc = "direct_cursor" /\ stops > 0 /\ value >= 1) => number = 1)
    /\ []((pc = "direct_cursor" /\ value <= 1) =>
            (Emitted = <<>> /\ number = value /\ factor = 2))
    /\ [][(pc = "direct_cursor" /\ (stops > 0 \/ value <= 1)) =>
            /\ stops' = stops + 1
            /\ item' = 0
            /\ Emitted' = Emitted
            /\ number' = number
            /\ factor' = factor]_vars

\* the cursor of 15 ended with divisor 5 and was advanced again
C14_Witness ==
    /\ pc = "direct_cursor"
    /\ value = 15
    /\ stops = 2
    /\ Emitted = <<3, 5>>
    /\ number = 1 /\ factor = 5

====
